---- MODULE Spec2Model ----
(***************************************************************************)
(* Fan-out probe engine of the pyosint modules (email.py, trace.py,        *)
(* username.py): a session object (target, output_folder, results), the    *)
(* execute() method that submits every probe to a ThreadPoolExecutor,      *)
(* collects the futures in submission order with future.result(timeout),   *)
(* leaves the `with` block (shutdown(wait=True)) and calls _save_results.  *)
(*                                                                         *)
(* Time is discrete: one Tick is TickSeconds seconds.  Steps of the thread *)
(* that called execute() and the start of a queued probe on an idle worker *)
(* take no time; a probe function may finish at any moment after it was    *)
(* started, or never.                                                      *)
(***************************************************************************)
EXTENDS Integers, Sequences, FiniteSets, TLC

VARIABLES kind, max_workers, nprobes,
          target, output_folder, results, dirs, files, notified,
          pc, idx, timer, status, age, ret, ledger, calls,
          now, runs, lastRejected, lastExec, laterOf,
          saved, maxruns, peer, payloads, lastOutput

vars == <<kind, max_workers, nprobes,
          target, output_folder, results, dirs, files, notified,
          pc, idx, timer, status, age, ret, ledger, calls,
          now, runs, lastRejected, lastExec, laterOf,
          saved, maxruns, peer, payloads, lastOutput>>

(* kind, max_workers, nprobes : the module, its pool width, its probe count  *)
(* target, output_folder, results : the session object's fields              *)
(* dirs, files : the directories and artifacts on disk; notified             *)
(* pc, idx, timer : where the thread in execute() is, the future it is        *)
(*   waiting for and the clock steps left of that wait                        *)
(* status, age, ret : per probe, the state of its future, how long its        *)
(*   function has been running and how its function ended                     *)
(* now : the wall clock, as far as artifact names can tell                    *)
(* Observers: ledger (outcomes the loop recorded per probe), calls (times a   *)
(*   probe function was invoked), laterOf (per field, the probe emitting it    *)
(*   that finished most recently), runs, lastRejected, lastExec, saved (what  *)
(*   the last _save_results call did), notified (what the last notify() call  *)
(*   did and what the last execute() before it had done)                      *)
(* maxruns : the number of dispatching runs a session is followed for          *)
(* peer : another run of the same module that saves into the same directory   *)
(* payloads : a sequence of payloads handed to the merge step on its own       *)
(* lastOutput : the folder of the last output() call that succeeded (observer) *)

setup == <<kind, max_workers, nprobes, maxruns, payloads>>
pool == <<status, age, ret, calls, laterOf>>

----------------------------------------------------------------------------
(* Bounds of the model *)

TickSeconds == 5        \* seconds of one clock step
NPlatforms == 3         \* entries of self.platforms kept (81 in the source)
PoolScale == 10         \* the username pool is scaled with the platform list
MaxProbes == 3          \* probes of a caller-supplied probe set
MaxWorkers == 2         \* pool width of a caller-supplied probe set

(* Program constants *)

EmailMaxWorkers == 4
TraceMaxWorkers == 5
UsernameMaxWorkers == 20
EmailTimeout == 10
TraceTimeout == 15
UsernameTimeout == 10

Kinds == {"email", "trace", "username", "generic"}

----------------------------------------------------------------------------
(* Values *)

None == [some |-> FALSE, val |-> <<>>]
Some(v) == [some |-> TRUE, val |-> v]
NoFolder == "None"
EmptyDict == [f \in {} |-> 0]

\* Python truthiness of Optional[str]: None and "" are falsy
Truthy(t) == t.some /\ t.val # <<>>

Letter == {"a", "b", "c", "o"}
LocalCh == Letter \cup {"1", ".", "_", "%", "+", "-"}
DomainCh == Letter \cup {"1", ".", "-"}

\* re.match(r'^[a-zA-Z0-9._%+-]+@[a-zA-Z0-9.-]+\.[a-zA-Z]{2,}$', email)
_validate_email(email) ==
    \E p \in 1..Len(email), q \in 1..Len(email) :
        /\ p >= 2 /\ email[p] = "@"
        /\ q >= p + 2 /\ email[q] = "."
        /\ Len(email) - q >= 2
        /\ \A k \in 1..(p - 1) : email[k] \in LocalCh
        /\ \A k \in (p + 1)..(q - 1) : email[k] \in DomainCh
        /\ \A k \in (q + 1)..Len(email) : email[k] \in Letter

\* ipaddress.ip_address(ip_address) on dotted-quad input, given as its octets
_validate_ip(ip_address) ==
    /\ Len(ip_address) = 4
    /\ \A k \in 1..4 : ip_address[k] \in 0..255

EmailInputs == { <<"a", "@", "b", ".", "c", "o">>, <<"a", "@", "b">>, <<>> }
IpInputs == { <<8, 8, 8, 8>>, <<999, 1, 1, 1>>, <<8, 8, 8>> }
UsernameInputs == { <<"a">>, <<"b">>, <<>> }

TargetInputs(k) ==
    CASE k = "email" -> EmailInputs
      [] k = "trace" -> IpInputs
      [] k = "username" -> UsernameInputs
      [] OTHER -> EmailInputs

\* find() / target() validate, search() accepts everything
Validate(k, v) ==
    CASE k = "trace" -> _validate_ip(v)
      [] k = "username" -> TRUE
      [] OTHER -> _validate_email(v)

----------------------------------------------------------------------------
(* The probe sets *)

EmailFieldsClash == <<"breaches", "breaches", "verification", "enrichment">>

\* the keys of the dicts the four email probes return
EmailFields == <<"breaches", "reputation", "verification", "enrichment">>
TraceFields == <<"geolocation", "asn_info", "abuse_report", "dns_reverse", "open_ports">>
PlatformNames == <<"facebook", "twitter", "instagram", "tiktok", "snapchat", "pinterest">>
GenericFields == <<"x", "x", "y", "y">>

MaxWorkersOf(k) ==
    CASE k = "email" -> EmailMaxWorkers
      [] k = "trace" -> TraceMaxWorkers
      [] k = "username" -> UsernameMaxWorkers \div PoolScale
      [] OTHER -> MaxWorkers

TimeoutOf(k) ==
    CASE k = "trace" -> TraceTimeout
      [] k = "username" -> UsernameTimeout
      [] OTHER -> EmailTimeout

\* future.result(timeout=...) in clock steps
WaitTicks == TimeoutOf(kind) \div TickSeconds

Probes == 1..nprobes

\* the field name probe i emits
Field(i) ==
    CASE kind = "email" -> EmailFields[i]
      [] kind = "trace" -> TraceFields[i]
      [] kind = "username" -> PlatformNames[i]
      [] OTHER -> GenericFields[i]

FieldNames == {Field(i) : i \in Probes}

\* the outcomes of a probe's external check that the probe function tells apart
Behaviours(k, i) ==
    CASE k = "email" -> IF i <= 2 THEN {"ok", "bad_status", "net_error"} ELSE {"ok"}
      [] k = "trace" -> IF i <= 2 THEN {"ok", "bad_status", "net_error"}
                        ELSE IF i = 4 THEN {"ok", "net_error"} ELSE {"ok"}
      [] k = "username" -> {"ok", "bad_status", "net_error"}
      [] OTHER -> {"ok", "raise"}

Dict(f, v) == [tag |-> "dict", d |-> [x \in {f} |-> v]]
NoneResult == [tag |-> "None", d |-> EmptyDict]
Raised == [tag |-> "raise", d |-> EmptyDict]

\* _check_breaches, _check_reputation, _verify_email, _clearbit_enrichment
EmailProbe(i, b) ==
    IF i <= 2
    THEN IF b = "ok" THEN Dict(EmailFields[i], "json") ELSE Dict(EmailFields[i], "empty")
    ELSE Dict(EmailFields[i], "simulated")

\* _geoip_lookup, _asn_lookup, _abuse_check, _dns_reverse, _port_scan
TraceProbe(i, b) ==
    CASE i <= 2 -> IF b = "ok" THEN Dict(TraceFields[i], "json")
                   ELSE Dict(TraceFields[i], "empty")
      [] i = 3 -> Dict(TraceFields[i], "simulated")
      [] i = 4 -> IF b = "ok" THEN Dict(TraceFields[i], "hostname")
                  ELSE Dict(TraceFields[i], "Unknown")
      [] OTHER -> Dict(TraceFields[i], "ports")

\* _check_platform: {platform: formatted_url} on 200/301/302/303, else None
_check_platform(i, b, username) ==
    IF b = "ok" THEN Dict(PlatformNames[i], <<PlatformNames[i], username>>)
    ELSE NoneResult

\* a caller-supplied probe: returns its one-field payload or raises
GenericProbe(i, b) ==
    IF b = "ok" THEN Dict(GenericFields[i], i) ELSE Raised

ProbeResult(i) ==
    CASE kind = "email" -> EmailProbe(i, ret[i])
      [] kind = "trace" -> TraceProbe(i, ret[i])
      [] kind = "username" -> _check_platform(i, ret[i], target.val)
      [] OTHER -> GenericProbe(i, ret[i])

UpdateKeepOld(res, d) == res @@ d

\* dict.update: the argument's entries replace those already present
Update(res, d) == d @@ res

----------------------------------------------------------------------------
(* Initial state: a freshly constructed session *)

SizesOf(k) ==
    CASE k = "email" -> {Len(EmailFields)}
      [] k = "trace" -> {Len(TraceFields)}
      [] k = "username" -> {NPlatforms}
      [] OTHER -> 0..MaxProbes

WidthsOf(k) == IF k = "generic" THEN 1..MaxWorkers ELSE {MaxWorkersOf(k)}

NotSaved == [out |-> "none", folder |-> NoFolder, name |-> <<>>]
PeerOff == [pc |-> "off", folder |-> NoFolder, name |-> <<>>]

Init ==
    /\ kind \in Kinds
    /\ max_workers \in WidthsOf(kind)
    /\ nprobes \in SizesOf(kind)
    /\ target = None
    /\ output_folder = NoFolder
    /\ results = EmptyDict
    /\ dirs = {}
    /\ files = {}
    /\ notified = [res |-> "no", after |-> "none"]
    /\ pc = "idle"
    /\ idx = 0
    /\ timer = 0
    /\ status = [i \in Probes |-> "unsubmitted"]
    /\ age = [i \in Probes |-> 0]
    /\ ret = [i \in Probes |-> "none"]
    /\ ledger = [i \in Probes |-> <<>>]
    /\ calls = [i \in Probes |-> 0]
    /\ laterOf = [f \in FieldNames |-> 0]
    /\ now = 0
    /\ runs = 0
    /\ lastRejected = FALSE
    /\ lastExec = "none"
    /\ saved = NotSaved
    /\ maxruns = 1
    /\ payloads = <<>>
    /\ lastOutput = NoFolder
    /\ peer = PeerOff

----------------------------------------------------------------------------
(* Session builder: find / target / search, output, notify *)

OutputInputs == {"out"}

DefaultFolder(k) ==
    CASE k = "trace" -> "./trace_results"
      [] k = "username" -> "./username_results"
      [] OTHER -> "./email_results"

\* find(email), target(ip_address), search(username)
SetTarget(v) ==
    /\ pc = "idle"
    /\ IF Validate(kind, v)
       THEN target' = Some(v) /\ lastRejected' = FALSE
       ELSE target' = target /\ lastRejected' = TRUE
    /\ UNCHANGED <<setup, lastOutput, peer, saved, pool, output_folder, results, dirs, files, notified,
                   pc, idx, timer, ledger, now, runs, lastExec>>

OutputFailedAssigns(folder_path) == folder_path

\* output_folder after an output() whose os.makedirs raised: the assignment is
\* skipped, the handler only logs
OutputFailed(folder_path) == output_folder

\* output(folder_path): os.makedirs may raise, which is logged
Output(folder_path, ok) ==
    /\ pc = "idle"
    /\ IF ok
       THEN /\ output_folder' = folder_path
            /\ dirs' = dirs \cup {folder_path}
            /\ lastOutput' = folder_path
       ELSE /\ output_folder' = OutputFailed(folder_path)
            /\ UNCHANGED <<dirs, lastOutput>>
    /\ UNCHANGED <<setup, peer, saved, pool, target, results, files, notified,
                   pc, idx, timer, ledger, now, runs, lastRejected, lastExec>>

\* notify(): notification.notify is called unguarded
Notify(ok) ==
    /\ pc = "idle"
    /\ notified' = [res |-> IF ok THEN "sent" ELSE "raised", after |-> lastExec]
    /\ UNCHANGED <<setup, lastOutput, peer, saved, pool, target, output_folder, results, dirs, files,
                   pc, idx, timer, ledger, now, runs, lastRejected, lastExec>>

----------------------------------------------------------------------------
(* execute(): guard, default folder, submission of every probe.  A session is *)
(* followed for maxruns runs that dispatch.                                  *)

Execute(mkdir_ok) ==
    /\ pc = "idle"
    /\ IF ~Truthy(target)
       THEN /\ lastExec' = "short"
            /\ UNCHANGED <<output_folder, dirs, pc, idx, timer, status, runs>>
       ELSE /\ runs < maxruns
            /\ IF output_folder = NoFolder
               THEN /\ output_folder' = DefaultFolder(kind)
                    /\ dirs' = IF mkdir_ok THEN dirs \cup {DefaultFolder(kind)} ELSE dirs
               ELSE /\ mkdir_ok
                    /\ UNCHANGED <<output_folder, dirs>>
            /\ IF output_folder = NoFolder /\ ~mkdir_ok
               THEN /\ lastExec' = "raised"
                    /\ UNCHANGED <<pc, idx, timer, status, runs>>
               ELSE /\ lastExec' = "ran"
                    /\ pc' = IF nprobes = 0 THEN "shutdown" ELSE "wait"
                    /\ idx' = IF nprobes = 0 THEN 0 ELSE 1
                    /\ timer' = IF nprobes = 0 THEN 0 ELSE WaitTicks
                    /\ status' = [i \in Probes |-> "queued"]
                    /\ runs' = runs + 1
    /\ UNCHANGED <<setup, lastOutput, peer, saved, target, results, files, notified, age, ret,
                   ledger, calls, now, lastRejected, laterOf>>

----------------------------------------------------------------------------
(* The worker pool *)

Running == {i \in Probes : status[i] = "running"}
Queued == {i \in Probes : status[i] = "queued"}
AllDone == \A i \in Probes : status[i] = "done"

CanStartUnbounded(i) ==
    /\ pc \in {"wait", "shutdown"}
    /\ status[i] = "queued"
    /\ \A j \in Queued : i <= j

\* an idle worker takes the head of the work queue
CanStart(i) ==
    /\ pc \in {"wait", "shutdown"}
    /\ status[i] = "queued"
    /\ \A j \in Queued : i <= j
    /\ Cardinality(Running) < max_workers

Start(i) ==
    /\ CanStart(i)
    /\ status' = [status EXCEPT ![i] = "running"]
    /\ calls' = [calls EXCEPT ![i] = @ + 1]
    /\ age' = [age EXCEPT ![i] = 0]
    /\ UNCHANGED <<setup, lastOutput, peer, saved, target, output_folder, results, dirs, files, notified,
                   pc, idx, timer, ret, ledger, now, runs, lastRejected, lastExec,
                   laterOf>>

WorkerMerges(i, b) == IF b = "ok" THEN Update(results, Dict(Field(i), "worker").d) ELSE results

\* what a probe function leaves in self.results: the probe functions read
\* self.target_* and self.services and return their payload, none assigns results
WorkerLeaves(i, b) == results

\* the probe function returns (or raises) with behaviour b
Finish(i, b) ==
    /\ status[i] = "running"
    /\ results' = WorkerLeaves(i, b)
    /\ b \in Behaviours(kind, i)
    /\ status' = [status EXCEPT ![i] = "done"]
    /\ ret' = [ret EXCEPT ![i] = b]
    /\ age' = [age EXCEPT ![i] = 0]
    /\ laterOf' = [laterOf EXCEPT ![Field(i)] = i]
    /\ UNCHANGED <<setup, lastOutput, peer, saved, target, output_folder, dirs, files, notified,
                   pc, idx, timer, ledger, calls, now, runs, lastRejected, lastExec>>

\* The wall clock is read only by _save_results, for the artifact's name: it is
\* counted from the newest artifact on, in clock steps
Stamps ==
    {f.written : f \in files}
      \cup (IF peer.pc = "named" /\ kind # "username" THEN {peer.name[2]} ELSE {})

\* the thread in execute() can take its next step without time passing
DispatcherReady ==
    \/ pc = "wait" /\ (status[idx] = "done" \/ timer = 0)
    \/ pc = "shutdown" /\ AllDone
    \/ pc = "done"

Tick ==
    /\ pc \in {"wait", "shutdown"}
    /\ ~DispatcherReady
    /\ \A i \in Probes : ~CanStart(i)
    /\ (pc = "wait" /\ timer > 0) \/ (\E i \in Running : age[i] <= WaitTicks)
    /\ now' = IF now \in Stamps THEN now + 1 ELSE now
    /\ timer' = IF pc = "wait" /\ timer > 0 THEN timer - 1 ELSE timer
    /\ age' = [i \in Probes |->
                 IF status[i] = "running" /\ age[i] <= WaitTicks
                 THEN age[i] + 1 ELSE age[i]]
    /\ UNCHANGED <<setup, lastOutput, peer, saved, target, output_folder, results, dirs, files, notified,
                   pc, idx, status, ret, ledger, calls, runs,
                   lastRejected, lastExec, laterOf>>

----------------------------------------------------------------------------
(* The collection loop: for future in futures: future.result(timeout) *)

\* what the loop body does with a finished future
Outcome(i) ==
    LET r == ProbeResult(i) IN
    CASE r.tag = "raise" -> "Failure"
      [] r.tag = "None" -> "Failure"
      [] OTHER -> "Success"

MergedByCompletion(i) ==
    IF Outcome(i) = "Success" /\ laterOf[Field(i)] = i
    THEN Update(results, ProbeResult(i).d) ELSE results

\* self.results after the loop body for future i
Merged(i) ==
    IF Outcome(i) = "Success" THEN Update(results, ProbeResult(i).d) ELSE results

NextIndexSkip(i) == i + 2

\* the for loop takes the futures one by one, in submission order
NextIndex(i) == i + 1

LoopDoneOnError(i, o) == NextIndex(i) > nprobes \/ o # "Success"

\* the loop ends after the last future, whatever the outcomes were
LoopDone(i, o) == NextIndex(i) > nprobes

Await ==
    /\ pc = "wait"
    /\ \/ /\ status[idx] = "done"
          /\ ledger' = [ledger EXCEPT ![idx] = Append(@, Outcome(idx))]
          /\ results' = Merged(idx)
       \/ /\ status[idx] # "done"
          /\ timer = 0
          /\ ledger' = [ledger EXCEPT ![idx] = Append(@, "Timeout")]
          /\ UNCHANGED results
    /\ IF LoopDone(idx, ledger'[idx][Len(ledger'[idx])])
       THEN pc' = "shutdown" /\ idx' = idx /\ timer' = 0
       ELSE pc' = "wait" /\ idx' = NextIndex(idx) /\ timer' = WaitTicks
    /\ UNCHANGED <<setup, lastOutput, peer, saved, pool, target, output_folder, dirs, files, notified,
                   now, runs, lastRejected, lastExec>>

----------------------------------------------------------------------------
(* Leaving the with block, then _save_results() *)

json_dumpTruncated(d) ==
    IF DOMAIN d = {} THEN {}
    ELSE {<<f, d[f]>> : f \in DOMAIN d \ {CHOOSE g \in DOMAIN d : TRUE}}

\* json.dump(self.results, f, indent=2): the text of a JSON object, one
\* "key": value member per entry of the dict
json_dump(d) == {<<f, d[f]>> : f \in DOMAIN d}

\* json.load of an artifact's text: the mapping of its members
json_load(text) ==
    [f \in {m[1] : m \in text} |-> (CHOOSE m \in text : m[1] = f)[2]]

\* os.listdir(folder)
ListingOf(fs, folder) == {f \in fs : f.folder = folder}

Listing(folder) == ListingOf(files, folder)

\* log_file: Log<entries of the folder + 1>.json, or <prefix>_<clock>.json at
\* the resolution of the clock
FileName(k, fs, folder, t) ==
    CASE k = "username" -> <<"Log", Cardinality(ListingOf(fs, folder)) + 1>>
      [] k = "trace" -> <<"TraceLog", t>>
      [] OTHER -> <<"EmailLog", t>>

LogName == FileName(kind, files, output_folder, now)

WriteOutcomes == {"ok", "open_fails", "dump_fails"}

\* with open(log_file, 'w') as f: json.dump(...): open truncates or creates the
\* file, a dump that raises leaves what had been written
WriteTo(fs, folder, name, t, text, w) ==
    LET others == {f \in fs : ~(f.folder = folder /\ f.name = name)} IN
    CASE w = "ok" ->
           others \cup {[folder |-> folder, name |-> name,
                         written |-> t, content |-> text]}
      [] w = "dump_fails" ->
           others \cup {[folder |-> folder, name |-> name,
                         written |-> t, content |-> {}]}
      [] OTHER -> fs

Written(w) == WriteTo(files, output_folder, LogName, now, json_dump(results), w)

\* shutdown(wait=True) returns once every worker thread has finished
CanLeavePool == pc = "shutdown" /\ AllDone

AfterWriteReraise(w) == IF w = "ok" THEN "ran" ELSE "raised"

\* except Exception as e: logger.error(...): execute() goes on to return self
AfterWrite(w) == "ran"

SaveResults(w) ==
    /\ CanLeavePool
    /\ IF results = EmptyDict
       THEN /\ w = "ok"
            /\ UNCHANGED files
            /\ lastExec' = "ran"
            /\ saved' = [out |-> "skipped", folder |-> output_folder, name |-> <<>>]
       ELSE IF output_folder \notin dirs
            THEN /\ w = "open_fails"
                 /\ UNCHANGED files
                 /\ IF kind = "username"
                    THEN /\ lastExec' = "raised"
                         /\ saved' = [out |-> "listdir_raised",
                                      folder |-> output_folder, name |-> <<>>]
                    ELSE /\ lastExec' = AfterWrite(w)
                         /\ saved' = [out |-> w, folder |-> output_folder,
                                      name |-> LogName]
            ELSE /\ files' = Written(w)
                 /\ lastExec' = AfterWrite(w)
                 /\ saved' = [out |-> w, folder |-> output_folder, name |-> LogName]
    /\ pc' = "done"
    /\ UNCHANGED <<setup, lastOutput, peer, pool, target, output_folder, results, dirs, notified,
                   idx, timer, ledger, now, runs, lastRejected>>

\* return self: the executor and the futures go out of scope
Return ==
    /\ pc = "done"
    /\ pc' = "idle"
    /\ idx' = 0
    /\ timer' = 0
    /\ status' = [i \in Probes |-> "unsubmitted"]
    /\ age' = [i \in Probes |-> 0]
    /\ ret' = [i \in Probes |-> "none"]
    /\ ledger' = [i \in Probes |-> <<>>]
    /\ calls' = [i \in Probes |-> 0]
    /\ laterOf' = [f \in FieldNames |-> 0]
    /\ UNCHANGED <<setup, lastOutput, peer, saved, target, output_folder, results, dirs, files, notified,
                   now, runs, lastRejected, lastExec>>

----------------------------------------------------------------------------

Next ==
    \/ \E v \in TargetInputs(kind) : SetTarget(v)
    \/ \E f \in OutputInputs, ok \in BOOLEAN : Output(f, ok)
    \/ \E ok \in BOOLEAN : Notify(ok)
    \/ \E ok \in BOOLEAN : Execute(ok)
    \/ \E i \in Probes : Start(i)
    \/ \E i \in Probes, b \in {"ok", "bad_status", "net_error", "raise"} : Finish(i, b)
    \/ Tick
    \/ Await
    \/ \E w \in WriteOutcomes : SaveResults(w)
    \/ Return

Spec == Init /\ [][Next]_vars

----------------------------------------------------------------------------
(* Sessions that run several times, next to another run of the same module    *)
(* that saves into the same directory, in a directory whose entries may be    *)
(* deleted.  The probe set is one probe wide, which keeps the runs short.     *)

MaxRuns == 2            \* dispatching runs of a session that are followed

SessionInit ==
    /\ kind \in {"username", "generic"}
    /\ max_workers = 1
    /\ nprobes = 1
    /\ target = None
    /\ output_folder = NoFolder
    /\ results = EmptyDict
    /\ dirs = {}
    /\ files = {}
    /\ notified = [res |-> "no", after |-> "none"]
    /\ pc = "idle"
    /\ idx = 0
    /\ timer = 0
    /\ status = [i \in Probes |-> "unsubmitted"]
    /\ age = [i \in Probes |-> 0]
    /\ ret = [i \in Probes |-> "none"]
    /\ ledger = [i \in Probes |-> <<>>]
    /\ calls = [i \in Probes |-> 0]
    /\ laterOf = [f \in FieldNames |-> 0]
    /\ now = 0
    /\ runs = 0
    /\ lastRejected = FALSE
    /\ lastExec = "none"
    /\ saved = NotSaved
    /\ maxruns = MaxRuns
    /\ payloads = <<>>
    /\ lastOutput = NoFolder
    /\ peer = [pc |-> "start", folder |-> NoFolder, name |-> <<>>]

\* the results of the other run: one field, as json.dump writes it
PeerText == json_dump([f \in {Field(1)} |-> "peer"])

\* the other run's _save_results computes log_file ...
PeerName ==
    /\ peer.pc = "start"
    /\ output_folder \in dirs
    /\ peer' = [pc |-> "named", folder |-> output_folder,
                name |-> FileName(kind, files, output_folder, now)]
    /\ UNCHANGED <<setup, lastOutput, saved, pool, target, output_folder, results, dirs, files,
                   notified, pc, idx, timer, ledger, now, runs, lastRejected, lastExec>>

\* ... and opens and writes it
PeerWrite(w) ==
    /\ peer.pc = "named"
    /\ files' = WriteTo(files, peer.folder, peer.name, now, PeerText, w)
    /\ peer' = [peer EXCEPT !.pc = "done"]
    /\ UNCHANGED <<setup, lastOutput, saved, pool, target, output_folder, results, dirs,
                   notified, pc, idx, timer, ledger, now, runs, lastRejected, lastExec>>

\* an entry of a result directory is removed by its owner
DeleteArtifact(f) ==
    /\ f \in files
    /\ files' = files \ {f}
    /\ UNCHANGED <<setup, lastOutput, peer, saved, pool, target, output_folder, results, dirs,
                   notified, pc, idx, timer, ledger, now, runs, lastRejected, lastExec>>

\* time passes between two calls on the session
Elapse ==
    /\ pc = "idle"
    /\ now \in Stamps
    /\ now' = now + 1
    /\ UNCHANGED <<setup, lastOutput, peer, saved, pool, target, output_folder, results, dirs, files,
                   notified, pc, idx, timer, ledger, runs, lastRejected, lastExec>>

\* one accepted and one rejected argument of find() / search()
SessionTargets(k) ==
    IF k = "username" THEN {<<"a">>, <<>>}
    ELSE {<<"a", "@", "b", ".", "c", "o">>, <<"a", "@", "b">>}

SessionNext ==
    \/ \E v \in SessionTargets(kind) : SetTarget(v)
    \/ \E f \in OutputInputs, ok \in BOOLEAN : Output(f, ok)
    \/ \E ok \in BOOLEAN : Execute(ok)
    \/ \E i \in Probes : Start(i)
    \/ \E i \in Probes : \E b \in Behaviours(kind, i) : Finish(i, b)
    \/ Tick
    \/ Await
    \/ \E w \in WriteOutcomes : SaveResults(w)
    \/ Return
    \/ PeerName
    \/ \E w \in WriteOutcomes : PeerWrite(w)
    \/ \E f \in files : DeleteArtifact(f)
    \/ Elapse

SessionSpec == SessionInit /\ [][SessionNext]_vars

----------------------------------------------------------------------------
(* Sessions that run several times and are given two output folders, with     *)
(* nothing else touching the directories                                      *)

\* two folders, to tell the last output() call from an earlier one
SessionFolders == {"out", "alt"}

FolderNext ==
    \/ \E v \in SessionTargets(kind) : SetTarget(v)
    \/ \E f \in SessionFolders, ok \in BOOLEAN : Output(f, ok)
    \/ \E ok \in BOOLEAN : Execute(ok)
    \/ \E i \in Probes : Start(i)
    \/ \E i \in Probes : \E b \in Behaviours(kind, i) : Finish(i, b)
    \/ Tick
    \/ Await
    \/ \E w \in WriteOutcomes : SaveResults(w)
    \/ Return

FolderSpec == SessionInit /\ [][FolderNext]_vars

----------------------------------------------------------------------------
(* The merge step on its own: the loop body self.results.update(result)      *)
(* applied, from the empty dict, to a given sequence of payloads              *)

MaxPayloads == 3        \* length of the payload sequences
MaxValue == 2           \* values a field may take

PayloadFields == {"x", "y"}

PayloadSet ==
    UNION {[D -> 1..MaxValue] : D \in SUBSET PayloadFields}

PayloadSeqs ==
    UNION {[1..n -> PayloadSet] : n \in 0..MaxPayloads}

MergeInit ==
    /\ kind = "generic"
    /\ max_workers = 1
    /\ nprobes = 0
    /\ target = None
    /\ output_folder = NoFolder
    /\ results = EmptyDict
    /\ dirs = {}
    /\ files = {}
    /\ notified = [res |-> "no", after |-> "none"]
    /\ pc = "merge"
    /\ idx = 1
    /\ timer = 0
    /\ status = [i \in Probes |-> "unsubmitted"]
    /\ age = [i \in Probes |-> 0]
    /\ ret = [i \in Probes |-> "none"]
    /\ ledger = [i \in Probes |-> <<>>]
    /\ calls = [i \in Probes |-> 0]
    /\ laterOf = [f \in FieldNames |-> 0]
    /\ now = 0
    /\ runs = 0
    /\ lastRejected = FALSE
    /\ lastExec = "none"
    /\ saved = NotSaved
    /\ maxruns = 0
    /\ payloads \in PayloadSeqs
    /\ lastOutput = NoFolder
    /\ peer = PeerOff

\* self.results.update(result) for the next payload of the sequence
MergeStep ==
    /\ pc = "merge"
    /\ idx <= Len(payloads)
    /\ results' = Update(results, payloads[idx])
    /\ idx' = NextIndex(idx)
    /\ UNCHANGED <<setup, lastOutput, peer, saved, pool, target, output_folder, dirs, files,
                   notified, pc, timer, ledger, now, runs, lastRejected, lastExec>>

MergeNext == MergeStep

MergeSpec == MergeInit /\ [][MergeNext]_vars

----------------------------------------------------------------------------
(* Properties *)

Outcomes == {"Success", "Failure", "Timeout"}
Recorded(i) == Len(ledger[i]) = 1
Has(i, o) == ledger[i] = <<o>>
PayloadValue(i) == ProbeResult(i).d[Field(i)]

\* C1: when execute() returns, each of the N probes has been given exactly one
\* outcome (success, failure or timeout), and no probe is ever given two.
C1_ExactlyOneOutcome ==
    /\ \A i \in Probes : Len(ledger[i]) <= 1
    /\ pc = "done" =>
         \A i \in Probes : Recorded(i) /\ ledger[i][1] \in Outcomes

C1_Witness ==
    /\ pc = "done"
    /\ max_workers < nprobes
    /\ \E i, j, k \in Probes :
         Has(i, "Success") /\ Has(j, "Failure") /\ ret[j] = "raise" /\ Has(k, "Timeout")

\* C2: the number of probe functions executing is never above the pool width
\* (4 email, 5 trace, the username pool), also with more probes than workers:
\* the other submitted probes are queued or finished.
C2_BoundedConcurrency ==
    /\ Cardinality(Running) <= max_workers
    /\ kind # "generic" => max_workers = MaxWorkersOf(kind)
    /\ kind = "email" => Cardinality(Running) <= EmailMaxWorkers
    /\ kind = "trace" => Cardinality(Running) <= TraceMaxWorkers
    /\ kind = "username" => Cardinality(Running) <= UsernameMaxWorkers

C2_Witness ==
    /\ Cardinality(Running) = max_workers
    /\ Queued # {}
    /\ nprobes > max_workers

\* the probe function of i returns at this step
Returns(i) == status[i] = "running" /\ status'[i] = "done"

\* C3: a probe whose function returns within perProbeTimeout of starting to
\* execute is recorded as Success or Failure, never as Timeout, whatever the pool
\* width, the number of probes and its position.  (Stated for the probes that
\* return strictly inside the timeout: Timeout has not been recorded for one of
\* them when it returns, and is not recorded for a probe that has returned.)
C3_InTimeNeverTimeout ==
    [][\A i \in Probes :
          /\ (Returns(i) /\ age[i] < WaitTicks) => ~Has(i, "Timeout")
          /\ (status[i] = "done" /\ ledger'[i] # ledger[i]) =>
                ledger'[i] # <<"Timeout">>]_vars

\* C4: a probe whose function does not return within perProbeTimeout of starting
\* is recorded as Timeout and none of its fields is merged, also when it
\* completes later.  (A probe that returns later than the timeout after its start
\* has already been recorded as Timeout, and a recorded Timeout is never followed
\* by a merge of that probe.)
C4_LateAlwaysTimeout ==
    [][\A i \in Probes :
          /\ (Returns(i) /\ age[i] > WaitTicks) => Has(i, "Timeout")
          /\ Has(i, "Timeout") => ledger'[i] = ledger[i] \/ pc = "done"]_vars

C6_FailureIsolated ==
    /\ \A i \in Probes : calls[i] <= 1
    /\ pc \in {"wait", "shutdown"} => lastExec = "ran"
    /\ \A j \in Probes :
         (Recorded(j) /\ \E i \in Probes \ {j} : Has(i, "Timeout") \/ Has(i, "Failure"))
         => /\ calls[j] = 1
            /\ Has(j, "Success") => Field(j) \in DOMAIN results

\* C7: in the email, trace and username modules a probe's field is in the results
\* only if that probe succeeded: a failed external check (network error,
\* non-success response) or a timeout contributes no key.
C7_FieldOnlyOnSuccess ==
    (pc = "done" /\ kind # "generic") =>
      \A i \in Probes :
        Field(i) \in DOMAIN results => (ret[i] = "ok" /\ Has(i, "Success"))

\* C8: the save step and the return of execute() happen only when every probe
\* has a recorded outcome.
C8_SaveAndReturnAfterAllReported ==
    [][(files' # files \/ pc' = "done" \/ (pc # "idle" /\ pc' = "idle"))
         => \A i \in Probes : Recorded(i)]_vars

C8_Witness ==
    /\ pc = "done"
    /\ files # {}
    /\ \E i, j \in Probes : Has(i, "Timeout") /\ Has(j, "Success")

\* C9: once a probe has been recorded as Timeout the dispatcher does not wait
\* for it any more: execute() goes on to the save step and returns although the
\* probe's function has not finished (and may never finish).
C9_NoWaitAfterTimeout ==
    (pc = "shutdown" /\ \A i \in Probes : status[i] # "done" => Has(i, "Timeout"))
      => CanLeavePool

\* C10: if the most recent find() / target() call was rejected by validation, the
\* following execute() dispatches no probe, also when an earlier call on the
\* session had accepted a target.
C10_RejectedTargetNoDispatch ==
    (kind # "username" /\ lastRejected) => pc = "idle"

\* the step of _save_results
Saves == pc = "shutdown" /\ pc' = "done"

\* C11: an execute() on a session without a target, or with an empty probe
\* set, is rejected with an error raised to the caller: it neither returns
\* normally without having dispatched, nor completes as a run.
C11_ContractViolationRaises ==
    /\ lastExec # "short"
    /\ nprobes = 0 => lastExec # "ran"

\* C12: when every probe of a run has failed (Failure or Timeout) the results
\* are the empty dict, the save step writes no file and execute() returns
\* normally; and the save step skips the write exactly when the results are
\* empty.
C12_AllFailedNothingSaved ==
    pc = "done" =>
      /\ (\A i \in Probes : Has(i, "Failure") \/ Has(i, "Timeout"))
           => (results = EmptyDict /\ saved.out = "skipped" /\ lastExec = "ran")
      /\ saved.out = "skipped" <=> results = EmptyDict

\* C13: every save of the consecutive runs of a session writes to a file name
\* that is not in the directory at that moment, whatever was deleted before: no
\* artifact is overwritten.
C13_PersistNeverOverwrites ==
    [][(Saves /\ peer.pc = "start" /\ saved'.out \in {"ok", "dump_fails"})
         => \A f \in files : ~(f.folder = output_folder /\ f.name = LogName)]_vars

C15_NotifierFailureAbsorbed ==
    notified.after = "ran" => notified.res # "raised"

\* C16: results is written only by the thread that called execute(), in its
\* collection loop and one future at a time; no step of a worker changes it.
C16_SingleWriter ==
    [][results' # results
         => /\ pc = "wait"
            /\ status' = status /\ ret' = ret /\ calls' = calls
            /\ ledger[idx] = <<>> /\ ledger'[idx] = <<"Success">>
            /\ \A j \in Probes \ {idx} : ledger'[j] = ledger[j]]_vars

C16_Witness ==
    /\ pc = "wait"
    /\ results # EmptyDict
    /\ Running # {}
    /\ \E i \in Probes : status[i] = "done" /\ ~Recorded(i)

Carriers(f) == {k \in 1..Len(payloads) : f \in DOMAIN payloads[k]}

\* the last of them
LastCarrier(f) == CHOOSE k \in Carriers(f) : \A j \in Carriers(f) : j <= k

\* C18: merging a sequence of payloads in order from the empty dict gives the
\* mapping whose fields are those of the payloads and in which each field has
\* the value of the last payload of the sequence that carries it.
C18_MergeIsLeftFold ==
    (pc = "merge" /\ idx > Len(payloads)) =>
      /\ DOMAIN results = UNION {DOMAIN payloads[k] : k \in 1..Len(payloads)}
      /\ \A f \in DOMAIN results : results[f] = payloads[LastCarrier(f)][f]

C18_Witness ==
    /\ pc = "merge"
    /\ idx > Len(payloads)
    /\ Len(payloads) = MaxPayloads
    /\ \E f \in DOMAIN results :
         /\ LastCarrier(f) < Len(payloads)
         /\ \E k \in Carriers(f) : payloads[k][f] # results[f]

\* C19: when a run saves while another run is between choosing its file name
\* and writing the file, in the same directory, the two file names differ, so
\* that the two runs leave two artifacts.
C19_ConcurrentPersistsDistinct ==
    [][(Saves /\ saved'.out = "ok" /\ peer.pc = "named"
          /\ peer.folder = output_folder)
         => LogName # peer.name]_vars

\* C20: once execute() has been called on a session, a notification is sent
\* only if the last execute() dispatched a run and went through its save step.
C20_NotifyOnlyAfterRun ==
    (notified.res = "sent" /\ notified.after # "none") => notified.after = "ran"

\* C21: while a run is dispatched, and so when its save step runs, the output
\* folder is the folder of the last output() call that succeeded, or the
\* default folder of the module if none has succeeded; a failed output() call
\* has not changed it.
C21_OutputFolderAtSave ==
    pc \in {"wait", "shutdown", "done"} =>
      output_folder = IF lastOutput # NoFolder THEN lastOutput
                      ELSE DefaultFolder(kind)

C21_Witness ==
    /\ pc = "shutdown"
    /\ runs = 2
    /\ output_folder = "alt"
    /\ {"out", DefaultFolder(kind)} \subseteq dirs

\* the probes of the run recorded as Success
Succeeded == {i \in Probes : Has(i, "Success")}

\* C22: in the email, trace and username probe sets no two probes emit the same
\* field name, so at the end of a session's first run every successful probe's
\* payload is in the results as that probe returned it: the results are the
\* mapping from the successful probes' fields to their values, whatever the
\* order of the merges.
C22_DisjointFields ==
    kind # "generic" =>
      /\ \A i, j \in Probes : i # j => Field(i) # Field(j)
      /\ pc = "done" =>
           results = [f \in {Field(i) : i \in Succeeded} |->
                        PayloadValue(CHOOSE i \in Succeeded : Field(i) = f)]

C22_Witness ==
    /\ kind # "generic"
    /\ pc = "done"
    /\ Cardinality(Succeeded) >= 2
    /\ \E i, j \in Succeeded : i < j /\ laterOf[Field(i)] = i /\ ret[j] = "ok"
    /\ \E i \in Probes : Has(i, "Timeout")

RECURSIVE SubmissionFold(_)
\* the payloads of the probes 1..n that returned one, merged in submission order
SubmissionFold(n) ==
    IF n = 0 THEN EmptyDict
    ELSE IF Outcome(n) = "Success"
         THEN Update(SubmissionFold(n - 1), ProbeResult(n).d)
         ELSE SubmissionFold(n - 1)

\* C23: when no probe of a session's first run has timed out, the results at
\* the end of the run are the payloads merged in submission order: they are
\* determined by what the probes returned, not by the order in which the probes
\* finished, and on a collision the probe submitted later wins.
C23_MergedInSubmissionOrder ==
    (pc = "done" /\ \A i \in Probes : ~Has(i, "Timeout")) =>
      results = SubmissionFold(nprobes)

C23_Witness ==
    /\ pc = "done"
    /\ \A i \in Probes : ~Has(i, "Timeout")
    /\ \E i, j \in Succeeded :
         /\ i < j /\ Field(i) = Field(j)
         /\ laterOf[Field(i)] = i
         /\ PayloadValue(i) # PayloadValue(j)
         /\ results[Field(i)] = PayloadValue(j)
    /\ results = SubmissionFold(nprobes)

\* C24: at the end of every run of a session the results hold only fields that
\* a probe of this run returned, with this run's values, and the artifact the
\* run wrote holds no other field.
C24_ResultsOfThisRunOnly ==
    pc = "done" =>
      /\ \A f \in DOMAIN results :
           \E i \in Succeeded : Field(i) = f /\ results[f] = PayloadValue(i)
      /\ saved.out = "ok" => Succeeded # {}

====
